---- MODULE Spec2Model ----
(***************************************************************************)
(* A model of the job-listing harvester: the scroll loop, the two listing  *)
(* discovery strategies (src/app.py scrape_jobs, src/stream.py             *)
(* handle_pagination), the card field extractor, the section extractor     *)
(* and the detail enricher.  Each component has its own specification over *)
(* the shared variables; the variables of the other components stay idle.  *)
(***************************************************************************)
EXTENDS Integers, Sequences, FiniteSets, TLC

None == "None"

(***************************************************************************)
(* Bounds of the model.                                                    *)
(***************************************************************************)
MaxScrollsBound == 6
MaxPagesBound == 3
MaxSiblings == 4
MaxRows == 2
MaxCards == 3
MaxScrollsLive == 3
MaxSiblingsLive == 3

(***************************************************************************)
(* Program constants.                                                      *)
(***************************************************************************)
\* src/stream.py:40  last_job_count = 0
InitialJobCount == 0
\* src/stream.py:76  if consecutive_no_change >= 3
StallLimit == 3

VARIABLES
    \* ---- scroll_to_load_all (src/stream.py:33-89)
    scroll_pc,              \* "loop" | "done"
    scroll_exit,            \* "none" | "stall" (break, line 78) | "ceiling" (line 49)
    max_scrolls,
    scrolls,
    last_height,
    last_job_count,
    consecutive_no_change,
    first_height,           \* the height read before the loop (line 39)
    reads,                  \* the <<height, job count>> pair read in each iteration so far
    \* ---- listing discovery: scrape_jobs (src/app.py:349-407) and
    \*      handle_pagination (src/stream.py:153-204)
    strategy,               \* "paginated" (scrape_jobs) | "scroll" (handle_pagination)
    disc_pc,                \* "run" | "done"
    max_pages,
    page_no,                \* current_page (app.py) / page (stream.py)
    page,                   \* the page the browser shows: [cards, ctls]
    all_jobs,
    pages_seen,             \* the card lists of the pages extracted so far
    returned,               \* the list handed to the caller (once disc_pc = "done")
    navigation,             \* what the search of scrape_jobs gave: "none" | "loaded" |
                            \* "results_timeout" | "error" | "driver_error"
    listing,                \* the listing the browser is pointed at: "full" | "plain"
                            \* | "two_jobs"
    disc_exit,              \* why the page loop ended: "none" | "no_results" (it never
                            \* began) | "ceiling" (the loop test)
                            \* | "no_next" (no control to click) | "failure" (a click
                            \* that raised, a page that did not load)
    \* ---- the per-card body of extract_job_cards (src/app.py:198-282)
    card_pc,                \* "title" | "location" | "date" | "url" | "append" | "done"
    field_lookups,          \* what the selectors of the field just extracted gave
    job_title,
    location,
    days_ago,
    job_url,
    job_cards,              \* the list the record is appended to
    \* ---- get_section_text (src/stream.py:328-367)
    section_pc,             \* "walk" | "done"
    siblings,               \* the elements that follow the heading's parent
    current_elem,           \* 0: the parent; i: the i-th sibling
    text_list,
    section_text,           \* the value returned (once section_pc = "done")
    walked,                 \* the siblings nextElementSibling returned, in order
    \* ---- extract_job_descriptions (src/stream.py:370-445)
    enrich_pc,              \* "start" | "loop" | "done"
    df,                     \* the caller's dataframe: [min_col, pref_col, rows]
    max_jobs_arg,           \* the max_jobs argument (NoCap: None)
    max_jobs,
    result_df,
    enrich_i,               \* the loop variable i (0-based)
    enrich_driver,          \* "none" | "open" | "quit"
    enrich_error,           \* the except clause ran (lines 436-438)
    detail_seen,            \* per record visited: the detail page and the fault met
    \* ---- scrape_zscaler_jobs (src/stream.py:245-325)
    zs_pc,                  \* "search" | "scroll" | "paginate" | "done"
    search_keyword,
    search_box,             \* what looking for the search input gave: "unused" |
                            \* "present" | "absent" (NoSuchElementException)
    scrolled_pages,         \* the page numbers on which scroll_to_load_all has run
    zs_jobs_data,           \* jobs_data, the list returned (once zs_pc = "done")
    zs_error,               \* the except clause ran (lines 317-319)
    initial_wait,           \* the wait for the listings at lines 275-284: "none" |
                            \* "loaded" | "timeout"
    \* ---- extract_job_listings_zscaler (src/stream.py:92-150), card by card
    zx_pc,                  \* "find" | "loop" | "done"
    job_elements,           \* the cards find_elements returned
    zx_index,               \* index (0-based) of the card the loop is at
    zx_jobs_data,           \* jobs_data
    \* ---- the listing run as its caller sees it (scrape_jobs, src/app.py:349-407;
    \* ---- scrape_zscaler_jobs, src/stream.py:245-325)
    max_pages_is_int,       \* the caller passed a number as max_pages (not None)
    session,                \* the browser of the run: "none" | "failed" (it could
                            \* not be created) | "open" | "closed"
    driver_ref,             \* self.driver / driver refers to a WebDriver object
    quit_calls,             \* the number of calls of quit() on it
    results,                \* self.results
    run_outcome             \* how the call ended: "none" | "returned" | "raised"

discVars == <<strategy, disc_pc, max_pages, page_no, page, all_jobs, pages_seen, returned,
              disc_exit, listing, navigation>>

runVars == <<max_pages_is_int, session, driver_ref, quit_calls, results, run_outcome>>

cardVars == <<card_pc, field_lookups, job_title, location, days_ago, job_url, job_cards>>

sectionVars == <<section_pc, siblings, current_elem, text_list, section_text, walked>>

enrichVars == <<enrich_pc, df, max_jobs_arg, max_jobs, result_df, enrich_i,
                enrich_driver, enrich_error, detail_seen>>

zxVars == <<zx_pc, job_elements, zx_index, zx_jobs_data>>

zsVars == <<zs_pc, search_keyword, search_box, scrolled_pages, zs_jobs_data, zs_error,
           initial_wait>>

scrollVars == <<scroll_pc, scroll_exit, max_scrolls, scrolls, last_height,
                last_job_count, consecutive_no_change, first_height, reads>>

vars == <<scrollVars, discVars, cardVars, sectionVars, enrichVars, zsVars, zxVars, runVars>>

(***************************************************************************)
(* scroll_to_load_all                                                      *)
(***************************************************************************)
\* what document.body.scrollHeight and len(find_elements("opening")) can return
Heights == {100, 200}
JobCounts == {0, 5, 8}

ZxIdle ==
    /\ zx_pc = "idle"
    /\ job_elements = <<>>
    /\ zx_index = 0
    /\ zx_jobs_data = <<>>

ZsIdle ==
    /\ zs_pc = "idle"
    /\ search_keyword = ""
    /\ search_box = "unused"
    /\ scrolled_pages = {}
    /\ zs_jobs_data = <<>>
    /\ zs_error = FALSE
    /\ initial_wait = "none"

ScrollIdle ==
    /\ scroll_pc = "idle"
    /\ scroll_exit = "none"
    /\ max_scrolls = 0
    /\ scrolls = 0
    /\ last_height = 0
    /\ last_job_count = 0
    /\ consecutive_no_change = 0
    /\ first_height = 0
    /\ reads = <<>>

ScrollLoopTestLate(s, m) == s < m + 1

\* line 49: while scrolls < max_scrolls
ScrollLoopTest(s, m) == s < m

\* lines 38-41 and the first test of the while condition (line 49)
ScrollStart(bound) ==
    /\ max_scrolls \in 0..bound
    /\ scrolls = 0
    /\ last_height \in Heights
    /\ first_height = last_height
    /\ last_job_count = InitialJobCount
    /\ consecutive_no_change = 0
    /\ reads = <<>>
    /\ scroll_pc = IF ScrollLoopTest(scrolls, max_scrolls) THEN "loop" ELSE "done"
    /\ scroll_exit = IF ScrollLoopTest(scrolls, max_scrolls) THEN "none" ELSE "ceiling"

ScrollInit == ScrollStart(MaxScrollsBound)

ScrollInitLive == ScrollStart(MaxScrollsLive)

NoChangeHeightOnly(new_height, job_count, lh, ljc) == new_height = lh

\* lines 73 and 79: the comparison with the previous iteration's values
NoChange(new_height, job_count, lh, ljc) ==
    new_height = lh /\ job_count = ljc

NextNoChangeNoReset(cnc, same) == IF same THEN cnc + 1 ELSE cnc

\* lines 73-80: consecutive_no_change after one comparison
NextNoChange(cnc, same) == IF same THEN cnc + 1 ELSE 0

StallReachedEarly(cnc) == cnc >= StallLimit - 1

\* line 76: the three-strike test
StallReached(cnc) == cnc >= StallLimit

\* one iteration of the while loop, lines 49-84, with the loop test that follows it
ScrollIteration ==
    /\ scroll_pc = "loop"
    /\ ScrollLoopTest(scrolls, max_scrolls)
    /\ \E new_height \in Heights, job_count \in JobCounts :
        LET same == NoChange(new_height, job_count, last_height, last_job_count)
            cnc  == NextNoChange(consecutive_no_change, same)
        IN  /\ reads' = Append(reads, <<new_height, job_count>>)
            /\ consecutive_no_change' = cnc
            /\ IF same /\ StallReached(cnc)
               THEN \* break, line 78
                    /\ scroll_pc' = "done"
                    /\ scroll_exit' = "stall"
                    /\ UNCHANGED <<last_height, last_job_count, scrolls>>
               ELSE \* lines 82-84, then the while test
                    /\ last_height' = new_height
                    /\ last_job_count' = job_count
                    /\ scrolls' = scrolls + 1
                    /\ scroll_pc' = IF ScrollLoopTest(scrolls + 1, max_scrolls)
                                  THEN "loop" ELSE "done"
                    /\ scroll_exit' = IF ScrollLoopTest(scrolls + 1, max_scrolls)
                                    THEN "none" ELSE "ceiling"
    /\ UNCHANGED <<max_scrolls, first_height>>
    /\ UNCHANGED <<discVars, cardVars, sectionVars, enrichVars, zsVars, zxVars, runVars>>

ScrollNext == ScrollIteration

(***************************************************************************)
(* Strings.  Element texts and attribute values are strings; None is       *)
(* Python's None.  strip(), lower() and the substring tests are computed   *)
(* over the texts the model uses.                                          *)
(***************************************************************************)
\* str.strip(): leading and trailing whitespace removed
Strip(s) ==
    CASE s = "   "       -> ""
      [] s = " SWE II "  -> "SWE II"
      [] s = " Austin "  -> "Austin"
      [] s = " p2 "      -> "p2"
      [] OTHER           -> s

\* Python truthiness of an Optional[str]
Truthy(s) == s # None /\ s # ""

\* "disabled" in s
ContainsDisabled(s) == s \in {"disabled", "next disabled", "btn disabled"}

(***************************************************************************)
(* The 'next' controls of a page, in the order the selectors find them.    *)
(* get_attribute gives None for an absent disabled or aria-disabled        *)
(* attribute and "" for an absent class (it reads the className property). *)
(***************************************************************************)
Ctl(displayed, disabled, class, aria, click) ==
    [displayed |-> displayed, disabled |-> disabled, class |-> class,
     aria |-> aria, click |-> click]

CtlOk            == Ctl(TRUE, None, "next", "false", "ok")
CtlBare          == Ctl(TRUE, None, "", None, "ok")
CtlClassDisabled == Ctl(TRUE, None, "next disabled", "false", "ok")
CtlAttrDisabled  == Ctl(TRUE, "true", "next", None, "ok")
CtlAriaDisabled  == Ctl(TRUE, None, "next", "true", "ok")
CtlHidden        == Ctl(FALSE, None, "next", "false", "ok")
CtlClickRaises   == Ctl(TRUE, None, "next", "false", "raises")

NextControls ==
    {CtlOk, CtlBare, CtlClassDisabled, CtlAttrDisabled, CtlAriaDisabled,
     CtlHidden, CtlClickRaises}

CtlLists ==
    {<<>>} \cup {<<c>> : c \in NextControls}
           \cup {<<CtlBare, CtlOk>>, <<CtlClassDisabled, CtlOk>>, <<CtlHidden, CtlOk>>}

(***************************************************************************)
(* Card Field Extractor of the Paginated strategy:                         *)
(* the per-card body of extract_job_cards (src/app.py:198-282).            *)
(* A card is what its lookups give: per selector of a field either an      *)
(* exception or the element's text; the anchor's href; the data-job-id.    *)
(***************************************************************************)
Found(t) == [raises |-> FALSE, text |-> t]
Missing  == [raises |-> TRUE, text |-> ""]

\* the for loop over a field's selectors (lines 202-215, 222-234, 241-253):
\* value is the variable (job_title, location, days_ago) before selector i
RECURSIVE SelectorLoop(_, _, _)
SelectorLoop(lookups, i, value) ==
    IF i > Len(lookups) THEN value
    ELSE IF lookups[i].raises THEN SelectorLoop(lookups, i + 1, value)
    ELSE LET v == Strip(lookups[i].text)
         IN  IF v # "" THEN v ELSE SelectorLoop(lookups, i + 1, v)

OrSentinelKeepsValue(value, sentinel) == value

\* lines 217-218, 236-237, 255-256
OrSentinel(value, sentinel) == IF ~Truthy(value) THEN sentinel ELSE value

ExtractField(lookups, sentinel) == OrSentinel(SelectorLoop(lookups, 1, None), sentinel)

\* line 268: the canonical URL of a job identifier
JobUrl(job_id) ==
    CASE job_id = "1" -> "https://careers.microsoft.com/us/en/job/1"
      [] job_id = "2" -> "https://careers.microsoft.com/us/en/job/2"
      [] OTHER        -> "https://careers.microsoft.com/us/en/job/"

\* lines 259-270: anchor = [raises, href], job_id = [raises, value]
ExtractUrl(anchor, job_id) ==
    IF ~anchor.raises THEN anchor.href
    ELSE IF job_id.raises THEN "Unknown URL"
    ELSE IF Truthy(job_id.value) THEN JobUrl(job_id.value)
    ELSE None

\* lines 200-278: the record appended for one card
CardRecord(card) ==
    [title    |-> ExtractField(card.titles, "Unknown Title"),
     location |-> ExtractField(card.locations, "Unknown Location"),
     days_ago |-> ExtractField(card.dates, "Unknown Date"),
     company  |-> "Microsoft",
     url      |-> ExtractUrl(card.anchor, card.job_id)]

\* lines 183-196 and 198-284: the records of a page, one per card, in order
ExtractJobCards(cards) == [i \in 1..Len(cards) |-> CardRecord(cards[i])]

\* a well-formed card of the Microsoft listing
AppCard(title, url) ==
    [titles    |-> <<Found(title), Missing, Missing, Missing, Missing>>,
     locations |-> <<Found("Austin"), Missing, Missing, Missing>>,
     dates     |-> <<Found("3 days ago"), Missing, Missing, Missing>>,
     anchor    |-> [raises |-> FALSE, href |-> url],
     job_id    |-> [raises |-> FALSE, value |-> None]]

(***************************************************************************)
(* extract_job_listings_zscaler (src/stream.py:92-150).                    *)
(* A card ("opening") is: its anchor [raises, text, href]; its location    *)
(* lookup [kind, text] with kind "ok", "nosuch" (NoSuchElementException)   *)
(* or "error" (any other exception); its department lookup [raises, text]. *)
(***************************************************************************)
\* len(location_text) < 50
LongTexts == {"Austin, Texas, United States; Remote; other locations"}

ShortText(s) == s \notin LongTexts

\* "footer" not in location_text.lower()
NoFooter(s) == s \notin {"Footer", "site footer"}

\* lines 113-120
ZsLocation(loc) ==
    IF loc.kind = "ok" /\ Strip(loc.text) # "" /\ ShortText(Strip(loc.text))
         /\ NoFooter(Strip(loc.text))
    THEN Strip(loc.text)
    ELSE "Not specified"

\* lines 122-127
ZsDepartment(dep) == IF dep.raises THEN "Not specified" ELSE Strip(dep.text)

\* lines 107-111 and 119, 143-145: the card raises and is skipped
ZsCardRaises(card) == card.a.raises \/ card.location.kind = "error"

\* line 129
ZsKeep(card) ==
    /\ Truthy(Strip(card.a.text))
    /\ Truthy(card.a.href)
    /\ Truthy(Strip(card.a.href))

ZsRecord(card) ==
    [Title      |-> Strip(card.a.text),
     Location   |-> ZsLocation(card.location),
     Department |-> ZsDepartment(card.department),
     Link       |-> card.a.href]

\* lines 130-131
IsDuplicate(jobs_data, rec) ==
    \E i \in 1..Len(jobs_data) :
        jobs_data[i].Title = rec.Title /\ jobs_data[i].Link = rec.Link

ZsCardResultLosesAll(card, jobs_data) ==
    IF ZsCardRaises(card) THEN <<>>
    ELSE IF ZsKeep(card) /\ ~IsDuplicate(jobs_data, ZsRecord(card))
         THEN Append(jobs_data, ZsRecord(card))
         ELSE jobs_data

\* lines 107-145: jobs_data after the body of the loop has run for one card
ZsCardResult(card, jobs_data) ==
    IF ZsCardRaises(card) THEN jobs_data
    ELSE IF ZsKeep(card) /\ ~IsDuplicate(jobs_data, ZsRecord(card))
         THEN Append(jobs_data, ZsRecord(card))
         ELSE jobs_data

\* lines 106-145: the loop over the job elements, from card i on
RECURSIVE ZsLoop(_, _, _)
ZsLoop(cards, i, jobs_data) ==
    IF i > Len(cards) THEN jobs_data
    ELSE ZsLoop(cards, i + 1, ZsCardResult(cards[i], jobs_data))

\* lines 96-150
ExtractJobListingsZscaler(cards) == ZsLoop(cards, 1, <<>>)

\* a well-formed card of the Greenhouse listing
ZsCard(title, link) ==
    [a          |-> [raises |-> FALSE, text |-> title, href |-> link],
     location   |-> [kind |-> "ok", text |-> "Austin"],
     department |-> [raises |-> FALSE, text |-> "Engineering"]]

\* the same card, shown with another location
ZsCardAt(title, link, loc) ==
    [ZsCard(title, link) EXCEPT !.location = [kind |-> "ok", text |-> loc]]

(***************************************************************************)
(* What the listing site can show.                                         *)
(***************************************************************************)
\* the card lists a page can hold, over two cards a and b: none, one, two
\* different, the same twice, three
ListsOver(a, b) == {<<>>, <<a>>, <<b>>, <<a, b>>, <<a, a>>, <<b, a, b>>}

\* the 2-page listing of the scenario: 10 and 4 cards, ("SWE II", "/job/1") on both
ScenarioTitles ==
    <<"SWE II", "SWE I", "SWE III", "SDE", "SDE II", "SRE", "PM", "TPM", "EM", "QA",
      "UX", "DS", "ML">>

ScenarioUrls ==
    <<"/job/1", "/job/2", "/job/3", "/job/4", "/job/5", "/job/6", "/job/7", "/job/8",
      "/job/9", "/job/10", "/job/11", "/job/12", "/job/13">>

ScenarioCard(i) == AppCard(ScenarioTitles[i], ScenarioUrls[i])

ScenarioPage1 == [i \in 1..10 |-> ScenarioCard(i)]

ScenarioPage2 == <<ScenarioCard(11), ScenarioCard(1), ScenarioCard(12), ScenarioCard(13)>>

CardLists(st) ==
    IF listing = "plain"
    THEN \* a listing whose pages are empty or hold one card
         IF st = "paginated" THEN {<<>>, <<AppCard("SWE II", "/job/1")>>}
         ELSE {<<>>, <<ZsCard("SWE II", "/job/1")>>}
    ELSE IF listing = "two_jobs"
    THEN \* a listing of two jobs, its pages showing them in several orders
         IF st = "paginated"
         THEN {<<>>, <<AppCard("SWE II", "/job/1"), AppCard("PM", "/job/2")>>,
               <<AppCard("PM", "/job/2"), AppCard("SWE II", "/job/1"),
                 AppCard("PM", "/job/2")>>}
         ELSE {<<>>, <<ZsCard("SWE II", "/job/1"), ZsCard("PM", "/job/2")>>,
               <<ZsCard("PM", "/job/2"), ZsCard("SWE II", "/job/1"),
                 ZsCardAt("SWE II", "/job/1", "Remote")>>}
    ELSE IF st = "paginated"
    THEN ListsOver(AppCard("SWE II", "/job/1"), AppCard("PM", "/job/2"))
            \cup {ScenarioPage1, ScenarioPage2}
    ELSE ListsOver(ZsCard("SWE II", "/job/1"), ZsCard("PM", "/job/2"))

Pages(st) == [cards : CardLists(st), ctls : CtlLists]

(***************************************************************************)
(* go_to_next_page (src/app.py:289-347)                                    *)
(***************************************************************************)
\* line 308: disabled = get_attribute("disabled")
\*                       or "disabled" in get_attribute("class")
\*                       or "disabled" in get_attribute("aria-disabled")
\* "in" applied to None raises TypeError
DisabledExpr(c) ==
    IF c.disabled # None THEN "truthy"
    ELSE IF ContainsDisabled(c.class) THEN "truthy"
    ELSE IF c.aria = None THEN "TypeError"
    ELSE IF ContainsDisabled(c.aria) THEN "truthy"
    ELSE "falsy"

\* the for loop over the selectors, from the i-th control they find:
\* TRUE when a control was clicked and the new page's cards appeared
RECURSIVE NextSelectorLoop(_, _, _)
NextSelectorLoop(ctls, i, loaded) ==
    IF i > Len(ctls) THEN FALSE                                  \* line 343
    ELSE IF ~ctls[i].displayed                                   \* not clickable: TimeoutException
         THEN NextSelectorLoop(ctls, i + 1, loaded)
    ELSE IF DisabledExpr(ctls[i]) = "TypeError"                  \* lines 337-339
         THEN NextSelectorLoop(ctls, i + 1, loaded)
    ELSE IF DisabledExpr(ctls[i]) = "truthy" THEN FALSE          \* lines 310-311
    ELSE IF ctls[i].click = "raises"                             \* lines 337-339
         THEN NextSelectorLoop(ctls, i + 1, loaded)
    ELSE loaded                                                  \* lines 324-331

GoToNextPage(ctls, loaded) == NextSelectorLoop(ctls, 1, loaded)

(***************************************************************************)
(* scrape_jobs (src/app.py:349-407)                                        *)
(***************************************************************************)
ExtendInFront(jobs, jobs_on_page) == jobs_on_page \o jobs

\* line 171 (and app.py lines 376, 392): all_jobs.extend(jobs_on_page)
Extend(jobs, jobs_on_page) == jobs \o jobs_on_page

\* line 380: while current_page < max_pages
PgLoopTest(current_page, m) == current_page < m

\* line 380 with max_pages = None: int < NoneType raises TypeError
PgLoopTestRaises(is_int) == ~is_int

FinallyLeavesOpen(ref, sess) == sess

\* the finally clause (app.py lines 404-407, stream.py lines 321-323): quit()
\* is called when the reference is set; sess is the session afterwards
Finally(ref, sess) == IF ref THEN "closed" ELSE sess

FinallyQuits(ref, n) == IF ref THEN n + 1 ELSE n

\* scrape_jobs returns jobs: through lines 398-399 (stored), or through the
\* except clause at lines 401-403; then the finally clause
PgLeave(stored, jobs) ==
    /\ returned' = jobs
    /\ results' = IF stored THEN jobs ELSE results
    /\ run_outcome' = "returned"
    /\ session' = Finally(driver_ref, session)
    /\ quit_calls' = FinallyQuits(driver_ref, quit_calls)

\* lines 371-377 and the first test of the while condition (line 380)
PgFirstPage ==
    /\ strategy = "paginated"
    /\ disc_pc = "start"
    /\ all_jobs' = Extend(all_jobs, ExtractJobCards(page.cards))
    /\ pages_seen' = Append(pages_seen, page.cards)
    /\ IF PgLoopTestRaises(max_pages_is_int)
       THEN /\ disc_pc' = "done"
            /\ disc_exit' = "exception"
            /\ PgLeave(FALSE, all_jobs')
       ELSE IF PgLoopTest(page_no, max_pages)
       THEN /\ disc_pc' = "run"
            /\ disc_exit' = "none"
            /\ returned' = <<>>
            /\ UNCHANGED <<session, quit_calls, results, run_outcome>>
       ELSE /\ disc_pc' = "done"
            /\ disc_exit' = "ceiling"
            /\ PgLeave(TRUE, all_jobs')
    /\ UNCHANGED <<strategy, max_pages, page_no, page, listing, navigation>>
    /\ UNCHANGED <<max_pages_is_int, driver_ref>>
    /\ UNCHANGED <<scrollVars, cardVars, sectionVars, enrichVars, zsVars, zxVars>>

\* one iteration of the while loop (lines 380-396), with the loop test that
\* follows it and lines 398-407 when the loop ends
PgIteration ==
    /\ strategy = "paginated"
    /\ disc_pc = "run"
    /\ PgLoopTest(page_no, max_pages)
    /\ \/ \E next \in Pages(strategy) :
            \* the control is clicked and the new page's cards appear
            /\ GoToNextPage(page.ctls, TRUE)
            /\ page_no' = page_no + 1
            /\ page' = next
            /\ all_jobs' = Extend(all_jobs, ExtractJobCards(next.cards))
            /\ pages_seen' = Append(pages_seen, next.cards)
            /\ IF PgLoopTest(page_no + 1, max_pages)
               THEN /\ disc_pc' = "run"
                    /\ disc_exit' = "none"
                    /\ returned' = <<>>
                    /\ UNCHANGED <<session, quit_calls, results, run_outcome>>
               ELSE /\ disc_pc' = "done"
                    /\ disc_exit' = "ceiling"
                    /\ PgLeave(TRUE, all_jobs')
       \/ \E loaded \in BOOLEAN :
            \* lines 394-396: no more pages
            /\ ~GoToNextPage(page.ctls, loaded)
            /\ disc_pc' = "done"
            /\ disc_exit' = IF GoToNextPage(page.ctls, TRUE) THEN "failure" ELSE "no_next"
            /\ PgLeave(TRUE, all_jobs)
            /\ UNCHANGED <<page_no, page, all_jobs, pages_seen>>
    /\ UNCHANGED <<strategy, max_pages, listing, navigation>>
    /\ UNCHANGED <<max_pages_is_int, driver_ref>>
    /\ UNCHANGED <<scrollVars, cardVars, sectionVars, enrichVars, zsVars, zxVars>>

(***************************************************************************)
(* handle_pagination (src/stream.py:153-204)                               *)
(***************************************************************************)
\* lines 174-183: the index of the first displayed control whose class does
\* not contain "disabled" (0: next_button stays None)
RECURSIVE NextButtonFrom(_, _)
NextButtonFrom(ctls, i) ==
    IF i > Len(ctls) THEN 0
    ELSE IF ctls[i].displayed /\ ~ContainsDisabled(ctls[i].class) THEN i
    ELSE NextButtonFrom(ctls, i + 1)

NextButton(ctls) == NextButtonFrom(ctls, 1)

ZsLoopTestLate(p, m) == p <= m + 1

\* line 166: while page <= max_pages
ZsLoopTest(p, m) == p <= m

\* one iteration of the while loop (lines 166-200), with the loop test that
\* follows it and the return (line 204) when the loop ends
ZsIteration ==
    /\ strategy = "scroll"
    /\ disc_pc = "run"
    /\ ZsLoopTest(page_no, max_pages)
    /\ LET jobs == Extend(all_jobs, ExtractJobListingsZscaler(page.cards))
           nb   == NextButton(page.ctls)
       IN  /\ all_jobs' = jobs
           /\ pages_seen' = Append(pages_seen, page.cards)
           /\ \/ \* lines 185-187, 198-200: no next button, or the click raises
                 /\ IF nb = 0 THEN TRUE ELSE page.ctls[nb].click = "raises"
                 /\ disc_pc' = "done"
                 /\ returned' = jobs
                 /\ disc_exit' = IF nb = 0 THEN "no_next" ELSE "failure"
                 /\ UNCHANGED <<page_no, page>>
              \/ \* lines 190-197: clicked, and the next page's cards appear
                 \E next \in Pages(strategy) :
                 /\ nb # 0
                 /\ page.ctls[nb].click = "ok"
                 /\ page_no' = page_no + 1
                 /\ page' = next
                 /\ disc_pc' = IF ZsLoopTest(page_no + 1, max_pages) THEN "run" ELSE "done"
                 /\ returned' = IF ZsLoopTest(page_no + 1, max_pages) THEN <<>> ELSE jobs
                 /\ disc_exit' = IF ZsLoopTest(page_no + 1, max_pages) THEN "none" ELSE "ceiling"
              \/ \* lines 194-200: clicked, and the wait for the cards times out
                 /\ nb # 0
                 /\ page.ctls[nb].click = "ok"
                 /\ page_no' = page_no + 1
                 /\ page' = page
                 /\ disc_pc' = "done"
                 /\ returned' = jobs
                 /\ disc_exit' = "failure"
    /\ UNCHANGED <<strategy, max_pages, listing, navigation>>
    /\ UNCHANGED <<scrollVars, cardVars, sectionVars, enrichVars, zsVars, zxVars, runVars>>

DiscIdle ==
    /\ strategy = "none"
    /\ disc_pc = "idle"
    /\ max_pages = 0
    /\ page_no = 0
    /\ page = [cards |-> <<>>, ctls |-> <<>>]
    /\ all_jobs = <<>>
    /\ pages_seen = <<>>
    /\ returned = <<>>
    /\ disc_exit = "none"
    /\ listing = "none"
    /\ navigation = "none"
    /\ max_pages_is_int = TRUE
    /\ session = "none"
    /\ driver_ref = FALSE
    /\ quit_calls = 0
    /\ results = <<>>
    /\ run_outcome = "none"

\* scrape_jobs at line 371 (the results page is loaded), handle_pagination
\* at line 166
DiscStart(site) ==
    /\ listing = site
    /\ strategy \in {"paginated", "scroll"}
    /\ navigation = IF strategy = "paginated" THEN "loaded" ELSE "none"
    /\ max_pages \in 0..MaxPagesBound
    /\ page_no = 1
    /\ page \in Pages(strategy)
    /\ all_jobs = <<>>
    /\ pages_seen = <<>>
    /\ returned = <<>>
    /\ disc_pc = IF strategy = "paginated" THEN "start"
                ELSE IF ZsLoopTest(page_no, max_pages) THEN "run" ELSE "done"
    /\ disc_exit = IF strategy = "paginated" \/ ZsLoopTest(page_no, max_pages)
                  THEN "none" ELSE "ceiling"
    /\ max_pages_is_int = TRUE
    /\ session = "open"
    /\ driver_ref = TRUE
    /\ quit_calls = 0
    /\ results = <<>>
    /\ run_outcome = "none"

DiscInit == DiscStart("full")

DiscInitPlain == DiscStart("plain")

DiscNext == PgFirstPage \/ PgIteration \/ ZsIteration

(***************************************************************************)
(* The per-card body of extract_job_cards, field by field.                 *)
(***************************************************************************)
TextOutcomes(texts) == {Missing} \cup {Found(t) : t \in texts}

TitleLookups == [1..5 -> TextOutcomes({"", "   ", " SWE II ", "PM"})]

LocationLookups == [1..4 -> TextOutcomes({"", " Austin ", "Remote"})]

DateLookups == [1..4 -> TextOutcomes({"", "3 days ago"})]

\* find_element(By.TAG_NAME, "a") and its get_attribute("href")
AnchorOutcomes ==
    {[raises |-> TRUE, href |-> None]}
        \cup {[raises |-> FALSE, href |-> h] : h \in {None, "", "/job/1"}}

\* get_attribute("data-job-id")
JobIdOutcomes ==
    {[raises |-> TRUE, value |-> None]}
        \cup {[raises |-> FALSE, value |-> v] : v \in {None, "", "1"}}

CardIdle ==
    /\ card_pc = "idle"
    /\ field_lookups = <<>>
    /\ job_title = None
    /\ location = None
    /\ days_ago = None
    /\ job_url = None
    /\ job_cards = <<>>

\* line 198: the body starts for one job element
CardInit ==
    /\ card_pc = "title"
    /\ field_lookups = <<>>
    /\ job_title = None
    /\ location = None
    /\ days_ago = None
    /\ job_url = None
    /\ job_cards = <<>>

\* lines 200-218
ExtractTitle ==
    /\ card_pc = "title"
    /\ \E lk \in TitleLookups :
        /\ field_lookups' = lk
        /\ job_title' = ExtractField(lk, "Unknown Title")
    /\ card_pc' = "location"
    /\ UNCHANGED <<location, days_ago, job_url, job_cards>>
    /\ UNCHANGED <<scrollVars, discVars, sectionVars, enrichVars, zsVars, zxVars, runVars>>

\* lines 220-237
ExtractLocation ==
    /\ card_pc = "location"
    /\ \E lk \in LocationLookups :
        /\ field_lookups' = lk
        /\ location' = ExtractField(lk, "Unknown Location")
    /\ card_pc' = "date"
    /\ UNCHANGED <<job_title, days_ago, job_url, job_cards>>
    /\ UNCHANGED <<scrollVars, discVars, sectionVars, enrichVars, zsVars, zxVars, runVars>>

\* lines 239-256
ExtractDate ==
    /\ card_pc = "date"
    /\ \E lk \in DateLookups :
        /\ field_lookups' = lk
        /\ days_ago' = ExtractField(lk, "Unknown Date")
    /\ card_pc' = "url"
    /\ UNCHANGED <<job_title, location, job_url, job_cards>>
    /\ UNCHANGED <<scrollVars, discVars, sectionVars, enrichVars, zsVars, zxVars, runVars>>

\* lines 258-270
ExtractJobUrl ==
    /\ card_pc = "url"
    /\ \E anchor \in AnchorOutcomes, job_id \in JobIdOutcomes :
        /\ field_lookups' = <<anchor, job_id>>
        /\ job_url' = ExtractUrl(anchor, job_id)
    /\ card_pc' = "append"
    /\ UNCHANGED <<job_title, location, days_ago, job_cards>>
    /\ UNCHANGED <<scrollVars, discVars, sectionVars, enrichVars, zsVars, zxVars, runVars>>

\* lines 272-278
AppendCard ==
    /\ card_pc = "append"
    /\ job_cards' = Append(job_cards,
                           [title |-> job_title, location |-> location,
                            days_ago |-> days_ago, company |-> "Microsoft",
                            url |-> job_url])
    /\ card_pc' = "done"
    /\ UNCHANGED <<field_lookups, job_title, location, days_ago, job_url>>
    /\ UNCHANGED <<scrollVars, discVars, sectionVars, enrichVars, zsVars, zxVars, runVars>>

CardNext == ExtractTitle \/ ExtractLocation \/ ExtractDate \/ ExtractJobUrl \/ AppendCard

(***************************************************************************)
(* get_section_text (src/stream.py:328-367).                               *)
(* An element is [tag, strong, class, text]: strong is the text of its     *)
(* first <strong> descendant, None when it has none (find_element raises). *)
(***************************************************************************)
Elem(tag, strong, class, text) ==
    [tag |-> tag, strong |-> strong, class |-> class, text |-> text]

Para(text) == Elem("p", None, "", text)

HeadingP(text) == Elem("p", text, "", text)

\* str.lower()
Lower(s) ==
    CASE s = "Minimum Qualifications"       -> "minimum qualifications"
      [] s = "Preferred Qualifications"     -> "preferred qualifications"
      [] s = "What We're Looking For"       -> "what we're looking for"
      [] s = "What Will Make You Stand Out" -> "what will make you stand out"
      [] s = "What You'll Do"               -> "what you'll do"
      [] s = "Benefits"                     -> "benefits"
      [] s = "About Us"                     -> "about us"
      [] s = "SWE II"                       -> "swe ii"
      [] s = "PM"                           -> "pm"
      [] s = "Swe"                          -> "swe"
      [] OTHER                              -> s

\* "qualifications" in s
ContainsQualifications(s) ==
    s \in {"minimum qualifications", "preferred qualifications", "qualifications"}

\* "what" in s
ContainsWhat(s) ==
    s \in {"what we're looking for", "what will make you stand out", "what you'll do"}

\* "content-nav" in s
ContainsContentNav(s) == s \in {"content-nav", "content-nav footer"}

IsNextSectionQualificationsOnly(e) ==
    /\ e.tag = "p"
    /\ e.strong # None
    /\ ContainsQualifications(Lower(Strip(e.strong)))

\* lines 350-356: a <p> with a <strong> whose text names the next section
IsNextSection(e) ==
    /\ e.tag = "p"
    /\ e.strong # None
    /\ \/ ContainsQualifications(Lower(Strip(e.strong)))
       \/ ContainsWhat(Lower(Strip(e.strong)))

\* line 359
IsContentNav(e) == e.tag = "div" /\ ContainsContentNav(e.class)

\* "\n".join(frags): the joined string as its fragments and the separators
RECURSIVE JoinNewline(_)
JoinNewline(frags) ==
    IF Len(frags) = 0 THEN <<>>
    ELSE IF Len(frags) = 1 THEN <<frags[1]>>
    ELSE <<frags[1], "\n">> \o JoinNewline(Tail(frags))

NonEmptyText(t) == t # ""

\* line 367
JoinTexts(list) == JoinNewline(SelectSeq(list, NonEmptyText))

\* the elements a detail page is made of
SiblingKinds ==
    {Para("p1"), Para(" p2 "), Para("p3"), Para("   "),
     HeadingP("Preferred Qualifications"), HeadingP("What You'll Do"),
     HeadingP("Benefits"),
     Elem("div", None, "content-nav", "nav"),
     Elem("div", "Preferred Qualifications", "", "d1")}

SectionStopsAtEndOnly(sibs, cur) == cur + 1 > Len(sibs)

\* lines 345-347, 350-356, 359-360: the walk ends after element cur
SectionStops(sibs, cur) ==
    IF cur + 1 > Len(sibs) THEN TRUE
    ELSE IsNextSection(sibs[cur + 1]) \/ IsContentNav(sibs[cur + 1])

\* lines 342-367 as a function of the siblings: the walk from element cur on
RECURSIVE SectionWalk(_, _, _)
SectionWalk(sibs, cur, list) ==
    IF SectionStops(sibs, cur) THEN JoinTexts(list)
    ELSE SectionWalk(sibs, cur + 1, Append(list, Strip(sibs[cur + 1].text)))

GetSectionText(sibs) == SectionWalk(sibs, 0, <<>>)

SectionIdle ==
    /\ section_pc = "idle"
    /\ siblings = <<>>
    /\ current_elem = 0
    /\ text_list = <<>>
    /\ section_text = <<>>
    /\ walked = <<>>

\* lines 333-340: current_elem is the heading's parent, followed by at most
\* bound siblings
SectionStart(bound) ==
    /\ section_pc = "walk"
    /\ siblings \in UNION {[1..n -> SiblingKinds] : n \in 0..bound}
    /\ current_elem = 0
    /\ text_list = <<>>
    /\ section_text = <<>>
    /\ walked = <<>>

SectionInit == SectionStart(MaxSiblings)

SectionInitLive == SectionStart(MaxSiblingsLive)

\* one iteration of the while loop (lines 342-364), and line 367 when it ends
SectionStep ==
    /\ section_pc = "walk"
    /\ LET next_elem == current_elem + 1
       IN  IF next_elem > Len(siblings)
           THEN \* lines 345-347: no more siblings
                /\ section_pc' = "done"
                /\ section_text' = JoinTexts(text_list)
                /\ UNCHANGED <<current_elem, text_list, walked>>
           ELSE IF SectionStops(siblings, current_elem)
           THEN \* lines 354, 360
                /\ section_pc' = "done"
                /\ section_text' = JoinTexts(text_list)
                /\ walked' = Append(walked, next_elem)
                /\ UNCHANGED <<current_elem, text_list>>
           ELSE \* lines 363-364
                /\ text_list' = Append(text_list, Strip(siblings[next_elem].text))
                /\ current_elem' = next_elem
                /\ walked' = Append(walked, next_elem)
                /\ UNCHANGED <<section_pc, section_text>>
    /\ UNCHANGED siblings
    /\ UNCHANGED <<scrollVars, discVars, cardVars, enrichVars, zsVars, zxVars, runVars>>

SectionNext == SectionStep

(***************************************************************************)
(* extract_job_descriptions (src/stream.py:370-445).                       *)
(* A detail page is the sequence of its top-level blocks; its <strong>     *)
(* elements are those of the blocks, in document order, each the child of  *)
(* its block.                                                              *)
(***************************************************************************)
\* max_jobs=None
NoCap == -1

Min(a, b) == IF a < b THEN a ELSE b

IsAnyHeading(h) == h # ""

\* line 421: either marker is in heading_text, over the headings of the model
IsMinimumHeading(h) == h \in {"what we're looking for", "minimum qualifications"}

\* line 426: either marker is in heading_text, over the headings of the model
IsPreferredHeading(h) == h \in {"what will make you stand out", "preferred qualifications"}

\* the blocks after block j
After(blocks, j) == SubSeq(blocks, j + 1, Len(blocks))

\* lines 413-428: the loop over the strong elements, from block j on;
\* q = [min, pref] holds min_qual_text and pref_qual_text
RECURSIVE HeadingLoop(_, _, _)
HeadingLoop(blocks, j, q) ==
    IF j > Len(blocks) THEN q
    ELSE IF blocks[j].strong = None THEN HeadingLoop(blocks, j + 1, q)
    ELSE LET heading_text == Lower(Strip(blocks[j].strong))
         IN  IF IsMinimumHeading(heading_text)
             THEN HeadingLoop(blocks, j + 1,
                              [q EXCEPT !.min = GetSectionText(After(blocks, j))])
             ELSE IF IsPreferredHeading(heading_text)
             THEN HeadingLoop(blocks, j + 1,
                              [q EXCEPT !.pref = GetSectionText(After(blocks, j))])
             ELSE HeadingLoop(blocks, j + 1, q)

Qualifications(blocks) == HeadingLoop(blocks, 1, [min |-> <<>>, pref |-> <<>>])

\* get_section_text is called for some heading of the page
CallsGetSectionText(blocks) ==
    \E j \in 1..Len(blocks) :
        /\ blocks[j].strong # None
        /\ \/ IsMinimumHeading(Lower(Strip(blocks[j].strong)))
           \/ IsPreferredHeading(Lower(Strip(blocks[j].strong)))

PageNoMarkers ==
    <<HeadingP("About Us"), Para("p1"), HeadingP("Benefits"), Para(" p2 ")>>

PageExample ==
    <<HeadingP("About Us"), HeadingP("Minimum Qualifications"), Para("p1"), Para(" p2 "),
      HeadingP("Preferred Qualifications"), Para("p3")>>

PageWhat ==
    <<HeadingP("What We're Looking For"), Para("p1"),
      HeadingP("What Will Make You Stand Out"), Para("p3")>>

PageTwoMinimum ==
    <<HeadingP("Minimum Qualifications"), Para("p1"),
      HeadingP("Minimum Qualifications"), Para("p3")>>

DetailPages == {<<>>, PageNoMarkers, PageExample, PageWhat, PageTwoMinimum}

\* what can raise while one record is enriched: driver.get (line 406), the
\* enumeration of the strong elements and their text (lines 410, 418),
\* get_section_text (lines 422, 427)
Faults == {"none", "navigation", "headings", "section"}

Raises(blocks, fault) ==
    \/ fault \in {"navigation", "headings"}
    \/ (fault = "section" /\ CallsGetSectionText(blocks))

Row(title, link, minq, prefq) ==
    [Title |-> title, Location |-> "Austin", Department |-> "Engineering",
     Link |-> link, MinimumQualifications |-> minq, PreferredQualifications |-> prefq]

\* the dataframes handed in: without the qualification columns, or with a
\* 'Minimum Qualifications' column already filled
DataFrames ==
    {[min_col |-> FALSE, pref_col |-> FALSE, rows |-> r] :
        r \in UNION {[1..n -> {Row("SWE II", "/job/1", <<>>, <<>>),
                               Row("PM", "/job/2", <<>>, <<>>)}] : n \in 0..MaxRows}}
    \cup
    {[min_col |-> TRUE, pref_col |-> FALSE, rows |-> r] :
        r \in UNION {[1..n -> {Row("SWE II", "/job/1", <<"old">>, <<>>)}] : n \in 1..MaxRows}}

EnrichIdle ==
    /\ enrich_pc = "idle"
    /\ df = [min_col |-> FALSE, pref_col |-> FALSE, rows |-> <<>>]
    /\ max_jobs_arg = NoCap
    /\ max_jobs = 0
    /\ result_df = <<>>
    /\ enrich_i = 0
    /\ enrich_driver = "none"
    /\ enrich_error = FALSE
    /\ detail_seen = <<>>

\* the call: extract_job_descriptions(df, max_jobs)
EnrichInit ==
    /\ enrich_pc = "start"
    /\ df \in DataFrames
    /\ max_jobs_arg \in {NoCap} \cup (0..(MaxRows + 1))
    /\ max_jobs = 0
    /\ result_df = <<>>
    /\ enrich_i = 0
    /\ enrich_driver = "none"
    /\ enrich_error = FALSE
    /\ detail_seen = <<>>

\* line 380: result_df is a copy of df, so the writes to result_df (lines
\* 382-384, 431-432) leave the caller's dataframe as it was
CallerDataFrame(d, rdf) == d

\* lines 380-384: the copy, with the two columns added where missing
WithColumns(d) ==
    [k \in 1..Len(d.rows) |->
        [d.rows[k] EXCEPT
            !.MinimumQualifications = IF d.min_col THEN @ ELSE <<>>,
            !.PreferredQualifications = IF d.pref_col THEN @ ELSE <<>>]]

\* lines 374-377
EffectiveMaxJobs(arg, n) == IF arg = NoCap THEN n ELSE Min(arg, n)

\* lines 374-400: the cap, the copy, the driver, and the first test of the loop
EnrichStart ==
    /\ enrich_pc = "start"
    /\ max_jobs' = EffectiveMaxJobs(max_jobs_arg, Len(df.rows))
    /\ result_df' = WithColumns(df)
    /\ \/ \* webdriver.Chrome raises: lines 436-438, driver is None
          /\ enrich_driver' = "none"
          /\ enrich_error' = TRUE
          /\ enrich_pc' = "done"
       \/ /\ enrich_error' = FALSE
          /\ IF 0 < max_jobs'
             THEN enrich_driver' = "open" /\ enrich_pc' = "loop"
             ELSE enrich_driver' = "quit" /\ enrich_pc' = "done"
    /\ df' = CallerDataFrame(df, result_df')
    /\ UNCHANGED <<max_jobs_arg, enrich_i, detail_seen>>
    /\ UNCHANGED <<scrollVars, discVars, cardVars, sectionVars, zsVars, zxVars, runVars>>

StoreQualificationsAndTitle(rdf, i, q) ==
    [rdf EXCEPT ![i + 1].MinimumQualifications = q.min,
                ![i + 1].PreferredQualifications = q.pref,
                ![i + 1].Title = ""]

\* lines 431-432
StoreQualifications(rdf, i, q) ==
    [rdf EXCEPT ![i + 1].MinimumQualifications = q.min,
                ![i + 1].PreferredQualifications = q.pref]

\* one iteration of the for loop (lines 400-434); an exception leaves the loop
\* for the except clause (lines 436-438); the driver is quit when the loop ends
EnrichRecord ==
    /\ enrich_pc = "loop"
    /\ enrich_i < max_jobs
    /\ \E blocks \in DetailPages, fault \in Faults :
        /\ detail_seen' = Append(detail_seen, [page |-> blocks, fault |-> fault])
        /\ IF Raises(blocks, fault)
           THEN /\ enrich_error' = TRUE
                /\ enrich_pc' = "done"
                /\ enrich_driver' = "quit"
                /\ UNCHANGED <<result_df, enrich_i>>
           ELSE /\ result_df' = StoreQualifications(result_df, enrich_i, Qualifications(blocks))
                /\ enrich_i' = enrich_i + 1
                /\ enrich_pc' = IF enrich_i + 1 < max_jobs THEN "loop" ELSE "done"
                /\ enrich_driver' = IF enrich_i + 1 < max_jobs THEN "open" ELSE "quit"
                /\ UNCHANGED enrich_error
    /\ df' = CallerDataFrame(df, result_df')
    /\ UNCHANGED <<max_jobs_arg, max_jobs>>
    /\ UNCHANGED <<scrollVars, discVars, cardVars, sectionVars, zsVars, zxVars, runVars>>

EnrichNext == EnrichStart \/ EnrichRecord

(***************************************************************************)
(* scrape_zscaler_jobs (src/stream.py:245-325): the InfiniteScroll run.    *)
(* It searches, scrolls, and hands over to handle_pagination, whose loop   *)
(* is ZsIteration.                                                         *)
(***************************************************************************)
Keywords == {"", "Swe"}

\* sub in s, over the lower-cased keywords and titles of the model
SubstringOf(sub, s) ==
    \/ sub = ""
    \/ sub = s
    \/ <<sub, s>> \in {<<"swe", "swe ii">>, <<"Swe", "Swe II">>}

TitleMatchesAny(keyword, title) == TRUE

KeywordFilterKeepsNone(keyword, jobs) == <<>>

\* line 310: search_keyword.lower() in job["Title"].lower()
TitleMatches(keyword, title) == SubstringOf(Lower(keyword), Lower(title))

\* lines 309-312
KeywordFilter(keyword, jobs) ==
    IF Truthy(keyword) /\ jobs # <<>>
    THEN SelectSeq(jobs, LAMBDA job : TitleMatches(keyword, job.Title))
    ELSE jobs

\* the call scrape_zscaler_jobs(search_keyword, max_pages): the page is the
\* one the browser shows when handle_pagination is entered
ZscalerStart(site) ==
    /\ listing = site
    /\ strategy = "scroll"
    /\ max_pages \in 0..MaxPagesBound
    /\ page_no = 1
    /\ page \in Pages(strategy)
    /\ all_jobs = <<>>
    /\ pages_seen = <<>>
    /\ returned = <<>>
    /\ disc_pc = "wait"
    /\ disc_exit = "none"
    /\ navigation = "none"
    /\ max_pages_is_int = TRUE
    /\ session = "none"
    /\ driver_ref = FALSE
    /\ quit_calls = 0
    /\ results = <<>>
    /\ run_outcome = "none"
    /\ zs_pc = "search"
    /\ search_keyword \in Keywords
    /\ search_box = "unused"
    /\ scrolled_pages = {}
    /\ zs_jobs_data = <<>>
    /\ zs_error = FALSE
    /\ initial_wait = "none"

ZscalerInit == ZscalerStart("two_jobs")

ZscalerInitPlain == ZscalerStart("plain")

\* the call scrape_jobs(keyword, location, max_pages): the page is the one
\* the browser shows when the search results have loaded
PaginatedInit ==
    /\ listing = "two_jobs"
    /\ strategy = "paginated"
    /\ max_pages_is_int \in BOOLEAN
    /\ max_pages \in IF max_pages_is_int THEN 0..MaxPagesBound ELSE {0}
    /\ page_no = 1
    /\ page \in Pages(strategy)
    /\ all_jobs = <<>>
    /\ pages_seen = <<>>
    /\ returned = <<>>
    /\ disc_pc = "navigate"
    /\ disc_exit = "none"
    /\ navigation = "none"
    /\ session = "none"
    /\ driver_ref = FALSE
    /\ quit_calls = 0
    /\ results = <<>>
    /\ run_outcome = "none"
    /\ ZsIdle

\* setup_driver raises in webdriver.Chrome ("driver_error", app.py lines
\* 46-50: no browser) or in execute_cdp_cmd ("cdp_error", lines 53-59: the
\* browser runs, self.driver is not assigned); navigate_to_search_results
\* returns True ("loaded", line 132), returns False because the wait for a
\* card container timed out ("results_timeout", lines 133-135) or because
\* anything before it raised ("error", lines 137-139)
NavigationOutcomes == {"loaded", "results_timeout", "error", "driver_error", "cdp_error"}

SearchResultsAlwaysLoaded(outcome) == TRUE

\* app.py lines 354-362: the scrape goes on to the first page
SearchResultsLoaded(outcome) == outcome = "loaded"

\* app.py line 354: the browser after setup_driver
SessionAfterSetup(outcome) ==
    IF outcome = "driver_error" THEN "failed" ELSE "open"

\* app.py line 354: self.driver is assigned when setup_driver returns
DriverAssigned(outcome) == outcome \notin {"driver_error", "cdp_error"}

\* app.py lines 351-369, and lines 401-407 when setup_driver raised
PgNavigate ==
    /\ strategy = "paginated"
    /\ disc_pc = "navigate"
    /\ \E outcome \in NavigationOutcomes :
        /\ navigation' = outcome
        /\ driver_ref' = DriverAssigned(outcome)
        /\ IF SearchResultsLoaded(outcome)
           THEN /\ disc_pc' = "start"
                /\ session' = SessionAfterSetup(outcome)
                /\ UNCHANGED <<returned, disc_exit, quit_calls, run_outcome>>
           ELSE /\ disc_pc' = "done"
                /\ returned' = all_jobs
                /\ disc_exit' = "no_results"
                /\ run_outcome' = "returned"
                /\ session' = Finally(driver_ref', SessionAfterSetup(outcome))
                \* line 361 when navigate_to_search_results returned False, then line 407
                /\ quit_calls' = FinallyQuits(driver_ref', IF driver_ref' THEN 1 ELSE 0)
    /\ UNCHANGED <<strategy, max_pages, page_no, page, all_jobs, pages_seen, listing>>
    /\ UNCHANGED <<max_pages_is_int, results>>
    /\ UNCHANGED <<scrollVars, cardVars, sectionVars, enrichVars, zsVars, zxVars>>

\* lines 317-325: the exception is reported and jobs_data, still empty, is
\* returned; created: webdriver.Chrome had returned, so driver is set and
\* the finally clause quits it
ZsRaise(created) ==
    /\ zs_error' = TRUE
    /\ zs_jobs_data' = <<>>
    /\ zs_pc' = "done"
    /\ run_outcome' = "returned"
    /\ driver_ref' = created
    /\ session' = Finally(created, "failed")
    /\ quit_calls' = FinallyQuits(created, quit_calls)

\* lines 275-284: the listings appear within 15 s, or TimeoutException is caught
InitialWaitOutcomes == {"loaded", "timeout"}

\* lines 263-301: the driver, the careers page, the wait for the listings, the search
ZsSearch ==
    /\ zs_pc = "search"
    /\ \/ \* webdriver.Chrome raises (line 265), or driver.get raises (line 272)
          /\ \E created \in BOOLEAN : ZsRaise(created)
          /\ UNCHANGED <<search_box, initial_wait>>
       \/ \E wait \in InitialWaitOutcomes :
          /\ initial_wait' = wait
          /\ \/ \* line 286: no keyword
                /\ ~Truthy(search_keyword)
                /\ zs_pc' = "scroll"
                /\ session' = "open"
                /\ driver_ref' = TRUE
                /\ UNCHANGED <<search_box, zs_jobs_data, zs_error, quit_calls, run_outcome>>
             \/ \* lines 289-298: the search input exists and the results appear
                /\ Truthy(search_keyword)
                /\ search_box' = "present"
                /\ zs_pc' = "scroll"
                /\ session' = "open"
                /\ driver_ref' = TRUE
                /\ UNCHANGED <<zs_jobs_data, zs_error, quit_calls, run_outcome>>
             \/ \* lines 296-298: the search input exists, the wait for results times out
                /\ Truthy(search_keyword)
                /\ search_box' = "present"
                /\ ZsRaise(TRUE)
             \/ \* lines 299-301: NoSuchElementException
                /\ Truthy(search_keyword)
                /\ search_box' = "absent"
                /\ zs_pc' = "scroll"
                /\ session' = "open"
                /\ driver_ref' = TRUE
                /\ UNCHANGED <<zs_jobs_data, zs_error, quit_calls, run_outcome>>
    /\ UNCHANGED <<search_keyword, scrolled_pages>>
    /\ UNCHANGED <<max_pages_is_int, results>>
    /\ UNCHANGED <<scrollVars, discVars, cardVars, sectionVars, enrichVars, zxVars>>

\* line 303, then handle_pagination's lines 157-166 (line 305)
ZsScrollAll ==
    /\ zs_pc = "scroll"
    /\ \/ \* scroll_to_load_all raises (execute_script, lines 39, 50, 66)
          /\ ZsRaise(TRUE)
          /\ UNCHANGED <<scrolled_pages, disc_pc, disc_exit>>
       \/ \* the scroll loop runs to completion on the page shown
          /\ scrolled_pages' = scrolled_pages \cup {page_no}
          /\ zs_pc' = "paginate"
          /\ disc_pc' = IF ZsLoopTest(page_no, max_pages) THEN "run" ELSE "done"
          /\ disc_exit' = IF ZsLoopTest(page_no, max_pages) THEN "none" ELSE "ceiling"
          /\ UNCHANGED <<zs_jobs_data, zs_error>>
          /\ UNCHANGED <<session, driver_ref, quit_calls, run_outcome>>
    /\ UNCHANGED <<search_keyword, search_box, initial_wait>>
    /\ UNCHANGED <<strategy, max_pages, page_no, page, all_jobs, pages_seen, returned, listing,
                   navigation>>
    /\ UNCHANGED <<max_pages_is_int, results>>
    /\ UNCHANGED <<scrollVars, cardVars, sectionVars, enrichVars, zxVars>>

\* lines 305-325: handle_pagination has returned
ZsFinish ==
    /\ zs_pc = "paginate"
    /\ disc_pc = "done"
    /\ zs_jobs_data' = KeywordFilter(search_keyword, returned)
    /\ zs_pc' = "done"
    /\ run_outcome' = "returned"
    /\ session' = Finally(driver_ref, session)
    /\ quit_calls' = FinallyQuits(driver_ref, quit_calls)
    /\ UNCHANGED <<search_keyword, search_box, scrolled_pages, zs_error, initial_wait>>
    /\ UNCHANGED <<max_pages_is_int, driver_ref, results>>
    /\ UNCHANGED <<scrollVars, discVars, cardVars, sectionVars, enrichVars, zxVars>>

RunNext ==
    \/ ZsSearch \/ ZsScrollAll \/ ZsIteration \/ ZsFinish
    \/ PgNavigate \/ PgFirstPage \/ PgIteration

(***************************************************************************)
(* extract_job_listings_zscaler (src/stream.py:92-150), card by card, over *)
(* cards whose lookups can fail.                                           *)
(***************************************************************************)
\* a card whose anchor cannot be read (the element went stale)
ZsCardStale ==
    [ZsCard("SWE II", "/job/1") EXCEPT !.a = [raises |-> TRUE, text |-> "", href |-> None]]

\* a card whose location lookup raises an error other than NoSuchElementException
ZsCardLocationError ==
    [ZsCard("SWE II", "/job/1") EXCEPT !.location = [kind |-> "error", text |-> ""]]

\* a card without a location element
ZsCardNoLocation ==
    [ZsCard("PM", "/job/2") EXCEPT !.location = [kind |-> "nosuch", text |-> ""]]

\* a card whose department lookup raises
ZsCardNoDepartment ==
    [ZsCard("PM", "/job/2") EXCEPT !.department = [raises |-> TRUE, text |-> ""]]

\* a card whose anchor has no href
ZsCardNoHref ==
    [ZsCard("SRE", "/job/3") EXCEPT !.a = [raises |-> FALSE, text |-> "SRE", href |-> None]]

ZsCards ==
    {ZsCard("SWE II", "/job/1"), ZsCard("PM", "/job/2"),
     ZsCardAt("SWE II", "/job/1", "Remote"),
     ZsCardStale, ZsCardLocationError, ZsCardNoLocation, ZsCardNoDepartment, ZsCardNoHref}

\* the call, on a page showing some cards
ZxInit ==
    /\ zx_pc = "find"
    /\ job_elements \in UNION {[1..n -> ZsCards] : n \in 0..MaxCards}
    /\ zx_index = 0
    /\ zx_jobs_data = <<>>

\* lines 96-106: find_elements, and the first test of the for loop
ZxFind ==
    /\ zx_pc = "find"
    /\ \/ \* find_elements raises: lines 147-150
          /\ zx_pc' = "done"
       \/ /\ zx_pc' = IF Len(job_elements) > 0 THEN "loop" ELSE "done"
    /\ UNCHANGED <<job_elements, zx_index, zx_jobs_data>>
    /\ UNCHANGED <<scrollVars, discVars, cardVars, sectionVars, enrichVars, zsVars, runVars>>

\* one iteration of the for loop (lines 106-145)
ZxCard ==
    /\ zx_pc = "loop"
    /\ zx_index < Len(job_elements)
    /\ zx_jobs_data' = ZsCardResult(job_elements[zx_index + 1], zx_jobs_data)
    /\ zx_index' = zx_index + 1
    /\ zx_pc' = IF zx_index + 1 < Len(job_elements) THEN "loop" ELSE "done"
    /\ UNCHANGED job_elements
    /\ UNCHANGED <<scrollVars, discVars, cardVars, sectionVars, enrichVars, zsVars, runVars>>

ZxNext == ZxFind \/ ZxCard

(***************************************************************************)
(* Specifications: one per component, the others idle.                     *)
(***************************************************************************)
InitScroll == ScrollInit /\ DiscIdle /\ CardIdle /\ SectionIdle /\ EnrichIdle /\ ZsIdle /\ ZxIdle

SpecScroll == InitScroll /\ [][ScrollNext]_vars

InitDisc == DiscInit /\ ScrollIdle /\ CardIdle /\ SectionIdle /\ EnrichIdle /\ ZsIdle /\ ZxIdle

SpecDiscovery == InitDisc /\ [][DiscNext]_vars

InitScrollLive == ScrollInitLive /\ DiscIdle /\ CardIdle /\ SectionIdle /\ EnrichIdle /\ ZsIdle /\ ZxIdle

\* the loop body runs to its end: its sleeps are bounded
SpecScrollFair == InitScrollLive /\ [][ScrollNext]_vars /\ WF_vars(ScrollNext)

InitDiscPlain == DiscInitPlain /\ ScrollIdle /\ CardIdle /\ SectionIdle /\ EnrichIdle /\ ZsIdle /\ ZxIdle

\* each loop body runs to its end: every wait and sleep in it is bounded
SpecDiscoveryFair == InitDiscPlain /\ [][DiscNext]_vars /\ WF_vars(DiscNext)

\* one discovery run of either strategy, as its caller sees it
InitRun ==
    (ZscalerInit \/ PaginatedInit) /\ ScrollIdle /\ CardIdle /\ SectionIdle /\ EnrichIdle
        /\ ZxIdle

SpecRun == InitRun /\ [][RunNext]_vars

\* stream.py line 622: pd.DataFrame(jobs_data), without qualification columns
DataFrameOf(jobs_data) ==
    [min_col |-> FALSE, pref_col |-> FALSE,
     rows |-> [k \in 1..Len(jobs_data) |->
                 [Title |-> jobs_data[k].Title, Location |-> jobs_data[k].Location,
                  Department |-> jobs_data[k].Department, Link |-> jobs_data[k].Link,
                  MinimumQualifications |-> <<>>, PreferredQualifications |-> <<>>]]]

\* stream.py lines 617-633: scrape_zscaler_jobs has returned a non-empty list
\* and the descriptions are asked for: extract_job_descriptions is called
MainExtract ==
    /\ zs_pc = "done"
    /\ run_outcome = "returned"
    /\ enrich_pc = "idle"
    /\ Len(zs_jobs_data) > 0
    /\ df' = DataFrameOf(zs_jobs_data)
    /\ max_jobs_arg' \in 1..MaxRows
    /\ enrich_pc' = "start"
    /\ UNCHANGED <<max_jobs, result_df, enrich_i, enrich_driver, enrich_error, detail_seen>>
    /\ UNCHANGED <<scrollVars, discVars, cardVars, sectionVars, zsVars, zxVars, runVars>>

MainNext ==
    \/ ZsSearch \/ ZsScrollAll \/ ZsIteration \/ ZsFinish
    \/ MainExtract \/ EnrichStart \/ EnrichRecord

\* main of stream.py in the mode "Scrape New Jobs" (lines 615-637)
InitMain ==
    ZscalerInitPlain /\ ScrollIdle /\ CardIdle /\ SectionIdle /\ EnrichIdle /\ ZxIdle

SpecMain == InitMain /\ [][MainNext]_vars

InitZx ==
    ZxInit /\ ScrollIdle /\ DiscIdle /\ CardIdle /\ SectionIdle /\ EnrichIdle /\ ZsIdle

SpecZsExtract == InitZx /\ [][ZxNext]_vars

InitCard == CardInit /\ ScrollIdle /\ DiscIdle /\ SectionIdle /\ EnrichIdle /\ ZsIdle /\ ZxIdle

SpecCard == InitCard /\ [][CardNext]_vars

InitSection == SectionInit /\ ScrollIdle /\ DiscIdle /\ CardIdle /\ EnrichIdle /\ ZsIdle /\ ZxIdle

SpecSection == InitSection /\ [][SectionNext]_vars

InitSectionLive ==
    SectionInitLive /\ ScrollIdle /\ DiscIdle /\ CardIdle /\ EnrichIdle /\ ZsIdle /\ ZxIdle

\* the loop body runs to its end: execute_script and the lookups return or raise
SpecSectionFair == InitSectionLive /\ [][SectionNext]_vars /\ WF_vars(SectionNext)

InitEnrich == EnrichInit /\ ScrollIdle /\ DiscIdle /\ CardIdle /\ SectionIdle /\ ZsIdle /\ ZxIdle

SpecEnrich == InitEnrich /\ [][EnrichNext]_vars

\* the values the k-th iteration's read is compared with
PrevPair(i) == IF i = 1 THEN <<first_height, InitialJobCount>> ELSE reads[i - 1]

ChangedAt(i) == reads[i] # PrevPair(i)

\* the last iteration whose read differs from the one before it (0: none)
LastChange ==
    LET S == {i \in 1..Len(reads) : ChangedAt(i)}
    IN  IF S = {} THEN 0 ELSE CHOOSE i \in S : \A j \in S : j <= i

\* C1: if the pair (height, job count) changes for the last time at iteration k
\* and every later read is identical, the loop exits during iteration k+3, for
\* every max_scrolls > k+3: it never runs past k+3 reads, it has stopped once
\* k+3 reads are made, and it does not stop earlier.
C1_StableExit ==
    LET n == Len(reads)
        k == LastChange
    IN  /\ n <= k + 3
        /\ (n = k + 3) => (scroll_pc = "done")
        /\ (scroll_exit = "stall") => (n = k + 3)
        /\ (scroll_pc = "done" /\ max_scrolls > k + 3) => (scroll_exit = "stall")

C1_Witness ==
    /\ scroll_pc = "done"
    /\ scroll_exit = "stall"
    /\ LastChange = 2
    /\ Len(reads) = 5
    /\ max_scrolls > 5

\* the reads of the scenario: heights 100, 200, 200, 200 and job counts 5, 8, 8, 8
Scenario4 == << <<100, 5>>, <<200, 8>>, <<200, 8>>, <<200, 8>> >>

\* C2 as stated: after these four reads the scroll loop has stopped.
C2_StopsAfterFourthRead ==
    (reads = Scenario4) => (scroll_pc = "done")

\* C2 amended: with max_scrolls > 4 the loop is still running after the 4th
\* read (two stable reads so far), and it stops during the 5th read when that
\* read is again (200, 8).
C2_StopsAfterFifthRead ==
    /\ (reads = Scenario4 /\ max_scrolls > 4) =>
            (scroll_pc = "loop" /\ consecutive_no_change = 2)
    /\ (reads = Append(Scenario4, <<200, 8>>)) =>
            (scroll_pc = "done" /\ scroll_exit = "stall")

C2_Witness ==
    /\ reads = Append(Scenario4, <<200, 8>>)
    /\ scroll_pc = "done"
    /\ max_scrolls > 5

\* a 'next' control that reports a disabled state: a disabled attribute, a
\* class naming it disabled, or aria-disabled="true"
ReportsDisabled(c) ==
    c.disabled # None \/ ContainsDisabled(c.class) \/ c.aria = "true"

\* no 'next' control is found, or every control found reports disabled
NoEnabledNext(ctls) == \A i \in 1..Len(ctls) : ReportsDisabled(ctls[i])

\* C3: in both strategies, when on an iteration no 'next' control is found or
\* the control found reports a disabled state, the pagination loop ends on
\* that iteration and the records accumulated so far are returned.
C3_EndsWithoutNext ==
    [][(disc_pc = "run" /\ NoEnabledNext(page.ctls))
          => (disc_pc' = "done" /\ returned' = all_jobs')]_vars

\* the identity key of a record
KeyOf(rec) ==
    IF strategy = "paginated" THEN <<rec.title, rec.url>> ELSE <<rec.Title, rec.Link>>

\* C5: no two records of the list a discovery run returns have the same
\* (title, url) pair, across all its pages.
C5_UniqueKeys ==
    (disc_pc = "done") =>
        \A i, j \in 1..Len(returned) :
            (i # j) => (KeyOf(returned[i]) # KeyOf(returned[j]))

\* C6: a Paginated run with max_pages = 3 over the 2-page listing of 10 and 4
\* cards, one (title, url) on both pages, returns exactly 13 records.
C6_ScenarioCount ==
    (/\ strategy = "paginated"
     /\ disc_pc = "done"
     /\ max_pages = 3
     /\ pages_seen = <<ScenarioPage1, ScenarioPage2>>)
        => (Len(returned) = 13)

\* C7: a run of handle_pagination that is fed the same cards on two
\* consecutive pagination iterations returns as many records as the cards
\* fed once give.
C7_DedupIdempotent ==
    (/\ strategy = "scroll"
     /\ disc_pc = "done"
     /\ Len(pages_seen) = 2
     /\ pages_seen[1] = pages_seen[2])
        => (Len(returned) = Len(ExtractJobListingsZscaler(pages_seen[1])))

\* a field that holds a non-empty string
Populated(v) == v # None /\ v # ""

\* C4: for every card and every combination of missing, empty or throwing
\* lookups, the record the Card Field Extractor produces holds a non-empty
\* string in each of title, location, posted age and url.
C4_EveryFieldPopulated ==
    (card_pc = "done") =>
        \A i \in 1..Len(job_cards) :
            /\ Populated(job_cards[i].title)
            /\ Populated(job_cards[i].location)
            /\ Populated(job_cards[i].days_ago)
            /\ Populated(job_cards[i].url)

\* a sibling at which the section ends: a heading-shaped element whose
\* lower-cased text contains "qualifications" or "what", or a navigation container
EndsSection(e) ==
    \/ (e.tag = "p" /\ e.strong # None
            /\ Lower(Strip(e.strong)) \in
                   {"minimum qualifications", "preferred qualifications",
                    "what we're looking for", "what will make you stand out",
                    "what you'll do"})
    \/ (e.tag = "div" /\ e.class \in {"content-nav", "content-nav footer"})

\* the number of siblings before the first one that ends the section
SectionLength(sibs) ==
    LET E == {i \in 1..Len(sibs) : EndsSection(sibs[i])}
    IN  IF E = {} THEN Len(sibs) ELSE (CHOOSE i \in E : \A j \in E : i <= j) - 1

\* the non-empty trimmed texts of the first n siblings, in document order
RECURSIVE TrimmedTexts(_, _)
TrimmedTexts(sibs, n) ==
    IF n = 0 THEN <<>>
    ELSE IF Strip(sibs[n].text) = "" THEN TrimmedTexts(sibs, n - 1)
    ELSE Append(TrimmedTexts(sibs, n - 1), Strip(sibs[n].text))

\* the page [A, "Minimum Qualifications", p1, p2, "Preferred Qualifications", p3]
\* after the "Minimum Qualifications" heading
SectionExample ==
    <<Para("p1"), Para(" p2 "), HeadingP("Preferred Qualifications"), Para("p3")>>

\* C8: get_section_text returns exactly the non-empty trimmed texts of the
\* siblings after the heading's parent, in document order, up to but excluding
\* the first sibling that ends the section, joined by newlines; on the example
\* page it returns p1 newline p2.
C8_SectionText ==
    (section_pc = "done") =>
        /\ section_text = JoinNewline(TrimmedTexts(siblings, SectionLength(siblings)))
        /\ (siblings = SectionExample) => (section_text = <<"p1", "\n", "p2">>)

C8_Witness ==
    /\ section_pc = "done"
    /\ siblings = SectionExample
    /\ section_text = <<"p1", "\n", "p2">>

\* the two marker vocabularies
MarkerVocabulary ==
    {"what we're looking for", "minimum qualifications",
     "what will make you stand out", "preferred qualifications"}

\* the detail page has no heading in either marker vocabulary
NoMarkers(blocks) ==
    \A j \in 1..Len(blocks) :
        blocks[j].strong = None \/ Lower(Strip(blocks[j].strong)) \notin MarkerVocabulary

\* the fields of a record other than the two qualification fields
OtherFields(row) == <<row.Title, row.Location, row.Department, row.Link>>

\* the visits of detail pages without markers on which neither the navigation
\* nor the enumeration of the headings failed
QuietVisits ==
    {r \in 1..Len(detail_seen) :
        NoMarkers(detail_seen[r].page) /\ ~Raises(detail_seen[r].page, detail_seen[r].fault)}

\* C9: a record whose detail page has no heading matching either marker
\* vocabulary is left with both qualification fields empty, keeps its other
\* fields, and its visit reports no error (an error reported by the run comes
\* from a later record's visit).
C9_NoMarkersLeavesEmpty ==
    \A r \in QuietVisits :
        /\ r <= enrich_i
        /\ result_df[r].MinimumQualifications = <<>>
        /\ result_df[r].PreferredQualifications = <<>>
        /\ OtherFields(result_df[r]) = OtherFields(df.rows[r])
        /\ enrich_error =>
              /\ r < Len(detail_seen)
              /\ Raises(detail_seen[Len(detail_seen)].page, detail_seen[Len(detail_seen)].fault)

C9_Witness ==
    /\ enrich_pc = "done"
    /\ ~enrich_error
    /\ df.min_col
    /\ Len(detail_seen) = 2
    /\ detail_seen[1].page = PageExample
    /\ detail_seen[2] = [page |-> PageNoMarkers, fault |-> "none"]
    /\ result_df[1].MinimumQualifications = <<"p1", "\n", "p2">>

\* C10: when the visit of one record raises, the later records below the cap
\* are still visited and written: a finished run has visited every record
\* below the cap.
C10_LaterRecordsProcessed ==
    (enrich_pc = "done" /\ enrich_driver = "quit") =>
        \A j \in 1..max_jobs : j <= Len(detail_seen)

\* C11: the Paginated strategy never extracts cards from more than max_pages
\* pages, for every value of max_pages.
C11_AtMostMaxPages ==
    (strategy = "paginated") => (Len(pages_seen) <= max_pages)

\* C17: handle_pagination extracts at most max_pages pages and always
\* terminates, whatever the 'next' control does.
C17_BoundedAndTerminates ==
    (strategy = "scroll") =>
        /\ [](Len(pages_seen) <= max_pages)
        /\ <>(disc_pc = "done")

\* three pages extracted, each with an enabled 'next' control that loads a page
C17_Witness ==
    /\ strategy = "scroll"
    /\ disc_pc = "done"
    /\ disc_exit = "ceiling"
    /\ max_pages = MaxPagesBound
    /\ Len(pages_seen) = MaxPagesBound
    /\ page.ctls = <<CtlOk>>

\* C12: the scroll loop makes at most max_scrolls iterations and terminates
\* for every page behaviour; it goes on while neither the stall count has
\* reached 3 nor the iteration count max_scrolls, and it has ended as soon as
\* one of them has.
C12_EndsAtFirstOfStallOrCeiling ==
    /\ [](Len(reads) <= max_scrolls)
    /\ [](scroll_pc = "loop" =>
            (consecutive_no_change < StallLimit /\ Len(reads) < max_scrolls))
    /\ [](scroll_pc = "done" =>
            \/ (scroll_exit = "stall" /\ consecutive_no_change = StallLimit)
            \/ (scroll_exit = "ceiling" /\ Len(reads) = max_scrolls
                    /\ consecutive_no_change < StallLimit))
    /\ <>(scroll_pc = "done")

\* a page that changes on every read, stopped by the ceiling
C12_Witness ==
    /\ scroll_pc = "done"
    /\ scroll_exit = "ceiling"
    /\ max_scrolls = MaxScrollsLive
    /\ Len(reads) = max_scrolls
    /\ \A i \in 1..Len(reads) : ChangedAt(i)

\* C16: in every scroll iteration the stall count grows by one exactly when
\* the height and the job count both equal the values of the previous
\* iteration (before the first iteration: the height read before the loop and
\* the count 0), and is reset to 0 when either differs.
C16_StallRule ==
    [][(Len(reads') = Len(reads) + 1) =>
          LET n    == Len(reads')
              prev == IF n = 1 THEN <<first_height, InitialJobCount>> ELSE reads[n - 1]
          IN  consecutive_no_change' =
                  IF reads'[n] = prev THEN consecutive_no_change + 1 ELSE 0]_vars

\* two stable reads, a change of the job count only, then a stable read
C16_Witness ==
    /\ Len(reads) = 4
    /\ reads[1] = <<first_height, InitialJobCount>>
    /\ reads[2] = reads[1]
    /\ reads[3][1] = reads[2][1]
    /\ reads[3][2] # reads[2][2]
    /\ reads[4] = reads[3]
    /\ consecutive_no_change = 1

\* a 'next' control that can be clicked and does not report a disabled state
EnabledNext(c) == c.displayed /\ ~ReportsDisabled(c) /\ c.click = "ok"

\* C18: in the Paginated strategy, when the 'next' control found does not
\* report a disabled state (also when it carries no disabled, class or
\* aria-disabled attribute), the page counter is below max_pages and the new
\* page's cards appear, the control is clicked and the next page is extracted.
C18_AdvancesOnEnabledNext ==
    [][(/\ strategy = "paginated"
        /\ disc_pc = "run"
        /\ page_no < max_pages
        /\ page.ctls # <<>>
        /\ EnabledNext(page.ctls[1]))
          => \/ (page_no' = page_no + 1 /\ pages_seen' = Append(pages_seen, page'.cards))
             \/ disc_exit' = "failure"]_vars

\* C20: the url of a card is the anchor's href when an anchor with an href
\* exists; otherwise the canonical URL built from the job identifier when the
\* card carries one; otherwise 'Unknown URL'.
C20_UrlFallback ==
    (card_pc = "done") =>
        LET anchor == field_lookups[1]
            job_id == field_lookups[2]
        IN  job_cards[Len(job_cards)].url =
                IF ~anchor.raises /\ Truthy(anchor.href) THEN anchor.href
                ELSE IF ~job_id.raises /\ Truthy(job_id.value) THEN JobUrl(job_id.value)
                ELSE "Unknown URL"

\* the run has returned to its caller without raising
RunDone ==
    \/ (strategy = "paginated" /\ disc_pc = "done")
    \/ (strategy = "scroll" /\ zs_pc = "done" /\ ~zs_error)

\* the list the run returns
RunResult == IF strategy = "paginated" THEN returned ELSE zs_jobs_data

\* the record a card gives on its own
RawRecord(card) == IF strategy = "paginated" THEN CardRecord(card) ELSE ZsRecord(card)

\* the records of the cards of the first n pages extracted, in page-then-card order
RECURSIVE SeenRecords(_, _)
SeenRecords(pages, n) ==
    IF n = 0 THEN <<>>
    ELSE SeenRecords(pages, n - 1)
            \o [i \in 1..Len(pages[n]) |-> RawRecord(pages[n][i])]

\* the position of the first record of seq with the key k (0: none)
FirstPos(seq, k) ==
    LET S == {i \in 1..Len(seq) : KeyOf(seq[i]) = k}
    IN  IF S = {} THEN 0 ELSE CHOOSE i \in S : \A j \in S : i <= j

\* C13: the list a run returns is in page-then-card order and first-seen
\* wins: every key returned was seen, the first record returned with a key is
\* the record of the first card seen with it, and keys whose first cards were
\* seen in one order are first returned in that order.
C13_PageThenCardOrder ==
    RunDone =>
        LET seen == SeenRecords(pages_seen, Len(pages_seen))
            R    == RunResult
        IN  /\ \A i \in 1..Len(R) : FirstPos(seen, KeyOf(R[i])) # 0
            /\ \A i \in 1..Len(R) :
                  (FirstPos(R, KeyOf(R[i])) = i)
                      => (R[i] = seen[FirstPos(seen, KeyOf(R[i]))])
            /\ \A i, j \in 1..Len(R) :
                  (FirstPos(seen, KeyOf(R[i])) < FirstPos(seen, KeyOf(R[j])))
                      => (FirstPos(R, KeyOf(R[i])) < FirstPos(R, KeyOf(R[j])))

\* two pages, the second showing the jobs of the first in another order, one
\* job shown twice on the first
C13_Witness ==
    /\ strategy = "scroll"
    /\ zs_pc = "done"
    /\ search_keyword = ""
    /\ Len(pages_seen) = 2
    /\ Len(pages_seen[1]) = 3
    /\ Len(pages_seen[2]) = 2
    /\ Len(zs_jobs_data) = 4
    /\ zs_jobs_data[2].Location = "Austin"

\* the keyword is in the title, whatever the case of the letters
ContainsKeyword(keyword, title) ==
    \/ keyword = ""
    \/ (keyword = "Swe" /\ title \in {"SWE II", "Swe", "swe"})

\* the records of all the pages extracted, page after page
RECURSIVE Accumulated(_, _)
Accumulated(pages, n) ==
    IF n = 0 THEN <<>>
    ELSE Accumulated(pages, n - 1) \o
            (IF strategy = "paginated" THEN ExtractJobCards(pages[n])
             ELSE ExtractJobListingsZscaler(pages[n]))

C15_KeywordFilter ==
    (zs_pc = "done" /\ ~zs_error /\ search_keyword # "") =>
        /\ \A i \in 1..Len(zs_jobs_data) :
              ContainsKeyword(search_keyword, zs_jobs_data[i].Title)
        /\ \A i \in 1..Len(returned) :
              ContainsKeyword(search_keyword, returned[i].Title)
                  => (\E j \in 1..Len(zs_jobs_data) : zs_jobs_data[j] = returned[i])

\* no search input: of the two jobs collected, the one with the keyword is returned
C15_Witness ==
    /\ zs_pc = "done"
    /\ search_keyword = "Swe"
    /\ search_box = "absent"
    /\ Len(returned) = 2
    /\ Len(zs_jobs_data) = 1
    /\ zs_jobs_data[1].Title = "SWE II"

\* C19: in the InfiniteScroll strategy the scroll loop has run to completion
\* on every page whose cards are extracted.
C19_ScrollBeforeExtract ==
    (strategy = "scroll") =>
        \A n \in 1..Len(pages_seen) : n \in scrolled_pages

\* the selectors of a field, in list order, whose lookup succeeds with
\* non-empty trimmed text
Successful(lookups) ==
    {i \in 1..Len(lookups) : ~lookups[i].raises /\ Strip(lookups[i].text) # ""}

\* the trimmed text of the first successful selector, or the sentinel
FirstSuccessful(lookups, sentinel) ==
    IF Successful(lookups) = {} THEN sentinel
    ELSE Strip(lookups[CHOOSE i \in Successful(lookups) :
                            \A j \in Successful(lookups) : i <= j].text)

\* C21: the title, the location and the posted age are each the trimmed text
\* of the first selector in list order whose lookup succeeds with non-empty
\* trimmed text, selectors that throw or yield empty text being skipped, and
\* the field's sentinel when no selector succeeds.
C21_FirstSuccessfulSelector ==
    /\ (card_pc = "location") => (job_title = FirstSuccessful(field_lookups, "Unknown Title"))
    /\ (card_pc = "date") => (location = FirstSuccessful(field_lookups, "Unknown Location"))
    /\ (card_pc = "url") => (days_ago = FirstSuccessful(field_lookups, "Unknown Date"))

\* the first title selector throws, the second yields blanks, the third a title
C21_Witness ==
    /\ card_pc = "location"
    /\ field_lookups[1] = Missing
    /\ field_lookups[2] = Found("   ")
    /\ field_lookups[3] = Found(" SWE II ")
    /\ field_lookups[4] = Found("PM")
    /\ job_title = "SWE II"

\* C22: an error thrown while one field of a card is read counts as no match
\* for that field: a card whose title and link are read still gets its
\* record.
C22_FieldErrorKeepsRecord ==
    (zx_pc = "done" /\ zx_index = Len(job_elements)) =>
        \A i \in 1..Len(job_elements) :
            (~job_elements[i].a.raises /\ ZsKeep(job_elements[i]))
                => \E j \in 1..Len(zx_jobs_data) :
                      /\ zx_jobs_data[j].Title = Strip(job_elements[i].a.text)
                      /\ zx_jobs_data[j].Link = job_elements[i].a.href

\* the cards of the page whose processing does not fail
Survivors == SelectSeq(job_elements, LAMBDA card : ~ZsCardRaises(card))

\* C23: when the processing of a card fails only that card is skipped: the
\* records of the page are those the page would give without the failing
\* cards.
C23_OnlyFailingCardSkipped ==
    (zx_pc = "done" /\ zx_index = Len(job_elements)) =>
        /\ zx_jobs_data = ExtractJobListingsZscaler(Survivors)
        /\ Len(zx_jobs_data) <= Len(Survivors)

\* a stale card between two cards that give their records
C23_Witness ==
    /\ zx_pc = "done"
    /\ Len(job_elements) = 3
    /\ job_elements[1] = ZsCard("PM", "/job/2")
    /\ job_elements[2] = ZsCardStale
    /\ job_elements[3] = ZsCard("SWE II", "/job/1")
    /\ Len(zx_jobs_data) = 2

\* C24: in the Paginated strategy, when the wait for a card container after
\* the search times out, the run ends with zero records, no card extraction
\* and no page advance.
C24_NoResultsEndsRun ==
    (strategy = "paginated" /\ navigation = "results_timeout") =>
        /\ disc_pc = "done"
        /\ returned = <<>>
        /\ all_jobs = <<>>
        /\ pages_seen = <<>>
        /\ page_no = 1

\* the wait timed out on a listing that would have shown cards and a 'next' control
C24_Witness ==
    /\ strategy = "paginated"
    /\ navigation = "results_timeout"
    /\ disc_pc = "done"
    /\ max_pages = MaxPagesBound
    /\ Len(page.cards) = 3
    /\ page.ctls = <<CtlOk>>

\* C25: in the InfiniteScroll strategy, once the initial wait for the job
\* listings has timed out the run ends there: no scrolling, no extraction and
\* no pagination is performed afterwards.
C25_TimeoutEndsRun ==
    (strategy = "scroll" /\ initial_wait = "timeout") =>
        /\ scrolled_pages = {}
        /\ pages_seen = <<>>
        /\ page_no = 1

\* C26: in the InfiniteScroll strategy, when the search input exists and was
\* used, the list returned is the list handle_pagination collected, without
\* any filtering of titles.
C26_SearchResultsUnfiltered ==
    (strategy = "scroll" /\ zs_pc = "done" /\ ~zs_error /\ search_box = "present") =>
        zs_jobs_data = returned

MinimumVocabulary == {"what we're looking for", "minimum qualifications"}

PreferredVocabulary == {"what will make you stand out", "preferred qualifications"}

\* the section text of the first heading of the page, in document order, that
\* is in the vocabulary; empty when there is none
FirstMatchText(blocks, vocabulary) ==
    LET M == {j \in 1..Len(blocks) :
                 blocks[j].strong # None /\ Lower(Strip(blocks[j].strong)) \in vocabulary}
    IN  IF M = {} THEN <<>>
        ELSE GetSectionText(After(blocks, CHOOSE j \in M : \A k \in M : j <= k))

\* C27: for every record whose visit has been stored, each qualification field
\* holds the section text of the first heading of its detail page matching that
\* field's vocabulary; later matching headings do not replace it.
C27_FirstMatchStored ==
    \A r \in 1..Len(detail_seen) :
        (r <= enrich_i) =>
            /\ result_df[r].MinimumQualifications =
                   FirstMatchText(detail_seen[r].page, MinimumVocabulary)
            /\ result_df[r].PreferredQualifications =
                   FirstMatchText(detail_seen[r].page, PreferredVocabulary)

\* min(cap, n), no cap meaning n
VisitTarget ==
    IF max_jobs_arg = NoCap \/ max_jobs_arg > Len(df.rows) THEN Len(df.rows) ELSE max_jobs_arg

\* C28: a finished enrichment whose driver was created has visited exactly the
\* first min(cap, n) records, in list order and each once, and every record at
\* or beyond the cap has both qualification fields at the empty default (where
\* the input had no such column).
C28_VisitsExactlyCap ==
    (enrich_pc = "done" /\ enrich_driver = "quit") =>
        /\ Len(detail_seen) = VisitTarget
        /\ \A k \in (VisitTarget + 1)..Len(result_df) :
              /\ df.min_col \/ result_df[k].MinimumQualifications = <<>>
              /\ df.pref_col \/ result_df[k].PreferredQualifications = <<>>

\* C29: enrichment changes nothing but the two qualification fields: the
\* result has the records of the input, in the same number and order, with the
\* same title, location, department and url, and the caller's dataframe is
\* never changed, whether the run succeeds or fails.
C29_OnlyQualificationsChange ==
    /\ [](enrich_pc \in {"loop", "done"} =>
            /\ Len(result_df) = Len(df.rows)
            /\ \A k \in 1..Len(result_df) : OtherFields(result_df[k]) = OtherFields(df.rows[k]))
    /\ [][df' = df]_vars

\* a run that stored the first record's qualifications and failed on the second
C29_Witness ==
    /\ enrich_pc = "done"
    /\ enrich_error
    /\ enrich_i = 1
    /\ Len(df.rows) = 2
    /\ df.rows[1].Title # df.rows[2].Title
    /\ result_df[1].MinimumQualifications = <<"p1", "\n", "p2">>
    /\ result_df[1].MinimumQualifications # df.rows[1].MinimumQualifications

\* the walk so far: the siblings visited are 1, 2, ... in this order, so every
\* step went to the next sibling and no node was visited twice
StrictlyForward == \A k \in 1..Len(walked) : walked[k] = k

\* C30: the sibling walk of get_section_text is strictly forward and
\* terminates: each step visits the next sibling of the current node, no node
\* is visited twice, there are at most as many steps as siblings after the
\* heading's parent, and every text collected comes from a sibling before the
\* first one that ends the section.
C30_ForwardBoundedWalk ==
    /\ [](/\ StrictlyForward
          /\ Len(walked) <= Len(siblings)
          /\ current_elem \in {Len(walked), Len(walked) - 1}
          /\ Len(text_list) <= SectionLength(siblings)
          /\ \A k \in 1..Len(text_list) : text_list[k] = Strip(siblings[k].text))
    /\ <>(section_pc = "done")

\* a walk ended by a heading that has a paragraph after it
C30_Witness ==
    /\ section_pc = "done"
    /\ siblings = <<Para("p1"), HeadingP("What You'll Do"), Para("p3")>>
    /\ walked = <<1, 2>>
    /\ text_list = <<"p1">>

\* C31: when the browser session cannot be created, the run entry point
\* (scrape_jobs, scrape_zscaler_jobs) propagates the failure to its caller: it
\* does not return a normal result.
C31_SessionFailurePropagates ==
    (session = "failed") => (run_outcome # "returned")

\* C33: after scrape_jobs has returned, on every path, self.results is the
\* list it returned.
C33_ResultsAreReturned ==
    (strategy = "paginated" /\ run_outcome = "returned") => (results = returned)

\* C34: a run that created a browser session has closed it when it returns,
\* and quit() is never called on a session that is already closed: it is
\* called exactly once.
C34_ClosedExactlyOnce ==
    /\ quit_calls <= 1
    /\ (run_outcome = "returned" /\ session # "failed") =>
           (session = "closed" /\ quit_calls = 1)

\* every read so far gave the height read before the first scroll and one and
\* the same job count
StaticPage ==
    \A i \in 1..Len(reads) : reads[i] = <<first_height, reads[1][2]>>

\* C35: on a completely static page, whatever its job count, the scroll loop
\* stops after exactly 3 iterations, provided max_scrolls >= 3.
C35_StaticPageThreeIterations ==
    (scroll_pc = "done" /\ max_scrolls >= 3 /\ StaticPage) => (Len(reads) = 3)

\* a command is issued by the Discovery Engine: some step of scrape_zscaler_jobs
ListingStep == zsVars' # zsVars \/ discVars' # discVars

\* a command is issued by the Detail Enricher: a step of extract_job_descriptions
EnrichmentStep == enrich_pc \in {"start", "loop"} /\ enrichVars' # enrichVars

\* C32: at most one browser session is open at any time: the listing session
\* is closed before the enrichment session is created, the Discovery Engine
\* acts only while no enrichment session exists and the Detail Enricher only
\* once the listing session is closed.
C32_OneSessionAtATime ==
    /\ [](~(session = "open" /\ enrich_driver = "open"))
    /\ [][(enrich_driver' = "open" /\ enrich_driver # "open") =>
              (session = "closed" /\ quit_calls = 1)]_vars
    /\ [][ListingStep => (enrich_driver = "none" /\ enrich_driver' = "none")]_vars
    /\ [][EnrichmentStep => (session = "closed" /\ session' = "closed")]_vars

\* the enrichment session is open after a listing run that collected a record
C32_Witness ==
    /\ enrich_pc = "loop"
    /\ enrich_driver = "open"
    /\ session = "closed"
    /\ Len(pages_seen) >= 1
    /\ Len(result_df) = 1

====
